---------------------------- MODULE Spec2Model ----------------------------
(***************************************************************************)
(* Model of the 8bitwealth growth/layout core and its data acquisition:    *)
(*   - getPileGridPosition / useBrickLayout   (lib/use-brick-layout.ts)    *)
(*   - WealthTower pile structure             (components/WealthTower.tsx) *)
(*   - useWealthAnimation                     (lib/use-wealth-animation.ts)*)
(*   - useBillionaireData                     (lib/use-billionaire-data.ts)*)
(*   - the cache in Redis                     (lib/wealth-cache.ts)        *)
(*   - GET /api/wealth                        (app/api/wealth/route.ts)    *)
(*   - GET|POST /api/cron/update-wealth, in the two revisions of its       *)
(*     handler among the sources                                           *)
(*                                                                         *)
(* JavaScript numbers that are not integers (PILE_SPACING = 1.5,           *)
(* BRICK_HEIGHT = 0.5, dollars per millisecond) are exact rationals        *)
(* [num, den] in lowest terms.  The profiles of the animation model have   *)
(* rates dailyIncrease / 86_400_000 that are dyadic, so that the double    *)
(* arithmetic of the program is exact on them and equals the rational      *)
(* arithmetic used here.                                                   *)
(***************************************************************************)
EXTENDS Integers, Sequences, FiniteSets, TLC

VARIABLES
    \* ---- spiral placement of piles (getPileGridPosition) ----
    spiralPiles,        \* positions handed out so far, pile index n at spiralPiles[n+1]
    \* ---- useBrickLayout / WealthTower ----
    totalBricks,        \* the count the layout was last computed for
    layout,             \* useBrickLayout(totalBricks): brickPositions, piles, gridSize
    tower,              \* WealthTower render: pileData and the bricks flagged isNew
    \* ---- useWealthAnimation ----
    animMounted,        \* a component using the hook is mounted
    profile,            \* the profile passed to the hook in the last render
    state,              \* useState: currentWealth, totalBricks, elapsedMs
    startTimeRef,       \* useRef<number | null>: {} is null, {t} holds t
    animationFrameRef,  \* useRef<number | null>: {} is null, {id} holds id
    wealthPerMsRef,     \* useRef(getWealthPerMs(profile))
    animate,            \* the current animate callback: what its closure captured
    rafQueue,           \* the animation frames requested and not yet run or cancelled
    now,                \* the time of the last event, in ms
    frame,              \* the locals of the last run of animate
    bind,               \* when and how the current profile was bound to the hook
    \* ---- useBillionaireData ----
    dataLife,           \* "initial", "mounted" or "unmounted": the component using the hook
    profiles,           \* useState<WealthProfile[]>(BILLIONAIRES_FALLBACK)
    isLoading,          \* useState(true)
    error,              \* useState<Error | null>(null): "null" or "Error"
    fetches,            \* the invocations of fetchData, each with its position
    lateCalls,          \* the state setters called after the component was unmounted
    origins,            \* where the net worth of each profile in profiles came from
    \* ---- the server: cache store, /api/wealth, /api/cron/update-wealth ----
    env,                \* process.env: REDIS_URL, CRON_SECRET, RAPIDAPI_KEY, NODE_ENV
    clock,              \* the time in seconds
    redisClient,        \* the module's singleton client: exists, isOpen
    store,              \* Redis: key -> the JSON text set and the time it expires
    lastWrite,          \* the last call of setWealthCache: its argument and result
    served,             \* the last request the server answered: the request, the
                        \* response, and what was done for it
    \* ---- the 3D scene: the growth pile next to the human figure ----
    scene,              \* the Scene rendered last: the growth count and its pile
    \* ---- the cache module under concurrent calls ----
    clients,            \* the clients made by createClient, each with its status and isOpen
    redisClientRef,     \* let redisClient: {} is null, {i} refers to clients[i]
    calls               \* the calls of setWealthCache, getWealthCache and
                        \* getElonWealthCache, each with its position

layoutVars == <<totalBricks, layout, tower>>
spiralVars == <<spiralPiles>>
animVars == <<animMounted, profile, state, startTimeRef, animationFrameRef,
              wealthPerMsRef, animate, rafQueue, now, frame, bind>>
fetchVars == <<dataLife, profiles, isLoading, error, fetches, lateCalls, origins>>
serverVars == <<env, clock, redisClient, store, lastWrite, served>>
sceneVars == <<scene>>
clientVars == <<clients, redisClientRef, calls>>
vars == <<spiralPiles, totalBricks, layout, tower,
          animMounted, profile, state, startTimeRef, animationFrameRef,
          wealthPerMsRef, animate, rafQueue, now, frame, bind,
          dataLife, profiles, isLoading, error, fetches, lateCalls, origins,
          env, clock, redisClient, store, lastWrite, served,
          scene, clients, redisClientRef, calls>>

-----------------------------------------------------------------------------
(* Bounds of the model *)

\* pile indices 0 .. MaxPiles-1 are placed in the spiral model (rings 1..5 complete)
MaxPiles == 121
\* largest brick count laid out by useBrickLayout
MaxBricks == 205
\* animation frames come at the times k * FramePeriod and k * FramePeriod + FrameJitter
FramePeriod == 500
FrameJitter == 30
\* the last instant of the animation model
MaxTime == 2530
\* invocations of fetchData per mounted component (the mount effect and refetch)
MaxFetches == 3
\* the server's clock advances in steps of ClockStep seconds (17.5 days), to
\* the second before a step or onto it, up to MaxClockSteps steps
ClockStep == 1512000
MaxClockSteps == 2
\* requests of the refresh endpoint answered by the server in one run
MaxRefreshes == 1
\* the growth count of the 3D scene goes up to MaxSceneCount, by 1 or by
\* SceneJump from one render to the next
MaxSceneCount == 185
SceneJump == 37
\* concurrent calls of the cache module in one process
MaxCalls == 3

-----------------------------------------------------------------------------
(* Exact rational arithmetic *)

Abs(n) == IF n < 0 THEN -n ELSE n

Min(a, b) == IF a <= b THEN a ELSE b

RECURSIVE GCD(_, _)
GCD(a, b) == IF b = 0 THEN a ELSE GCD(b, a % b)

\* the rational n/d (d > 0) in lowest terms
Rat(n, d) ==
    LET g == GCD(Abs(n), d)
    IN  [num |-> n \div g, den |-> d \div g]

RatInt(n) == [num |-> n, den |-> 1]

\* k * q for an integer k
RatScale(k, q) == Rat(k * q.num, q.den)

IsInteger(q) == q.den = 1

\* Math.floor of a rational
RatFloor(q) == q.num \div q.den

-----------------------------------------------------------------------------
(* lib/use-brick-layout.ts, lib/wealth-data.ts: constants *)

BRICK_HEIGHT == [num |-> 1, den |-> 2]

PILE_SPACING == [num |-> 3, den |-> 2]

MAX_BRICKS_PER_PILE == 20

-----------------------------------------------------------------------------
(* getPileGridPosition *)

\* the locals before the loop
SpiralStart ==
    [x |-> 0, z |-> 0, dx |-> 1, dz |-> 0,
     segmentLength |-> 1, segmentPassed |-> 0, turnsMade |-> 0]

\* a clockwise turn: dx = dz; dz = -dx
SpiralTurn_Clockwise(w) == [w EXCEPT !.dx = w.dz, !.dz = -w.dx]

\* the turn at the end of a segment: const temp = dx; dx = -dz; dz = temp
SpiralTurn(w) == [w EXCEPT !.dx = -w.dz, !.dz = w.dx]

\* the segment grows at every turn
SpiralSegmentLength_EveryTurn(segmentLength, turns) == segmentLength + 1

\* the segment never grows
SpiralSegmentLength_Never(segmentLength, turns) == segmentLength

\* segment length after the turn number `turns`: it grows every 2 turns
SpiralSegmentLength(segmentLength, turns) ==
    IF turns % 2 = 0 THEN segmentLength + 1 ELSE segmentLength

\* one iteration of the for loop
SpiralStep(w) ==
    LET moved == [w EXCEPT !.x = w.x + w.dx, !.z = w.z + w.dz,
                           !.segmentPassed = w.segmentPassed + 1]
    IN  IF moved.segmentPassed = moved.segmentLength
        THEN LET turned == SpiralTurn(moved)
                 turns  == moved.turnsMade + 1
             IN  [turned EXCEPT !.segmentPassed = 0,
                                !.turnsMade = turns,
                                !.segmentLength =
                                    SpiralSegmentLength(moved.segmentLength, turns)]
        ELSE moved

\* for (let i = 0; i < pileIndex; i++) { ... }: the loop body applied `steps`
\* times to the locals w (the iterations are split in two halves, which keeps
\* the evaluation depth logarithmic; the result is that of the sequential loop)
RECURSIVE SpiralWalk(_, _)
SpiralWalk(steps, w) ==
    IF steps = 0 THEN w
    ELSE IF steps = 1 THEN SpiralStep(w)
    ELSE LET half == steps \div 2
             mid  == SpiralWalk(half, w)
         IN  IF mid.turnsMade >= 0 THEN SpiralWalk(steps - half, mid) ELSE mid

\* the walked cell returned as it is, without the spacing
SpiralResult_Unscaled(x, z) == [x |-> RatInt(x), z |-> RatInt(z)]

\* the value returned for the walked cell (x, z)
SpiralResult(x, z) ==
    [x |-> RatScale(x, PILE_SPACING), z |-> RatScale(z, PILE_SPACING)]

getPileGridPosition(pileIndex) ==
    IF pileIndex = 0
    THEN [x |-> RatInt(0), z |-> RatInt(0)]
    ELSE LET w == SpiralWalk(pileIndex, SpiralStart)
         IN  SpiralResult(w.x, w.z)


-----------------------------------------------------------------------------
(* useBrickLayout *)

\* Math.ceil(a / b) for a >= 0, b > 0
CeilDiv(a, b) == (a + b - 1) \div b

\* Math.ceil(Math.sqrt(n))
CeilSqrt(n) == CHOOSE r \in 0..n : r * r >= n /\ (r = 0 \/ (r - 1) * (r - 1) < n)

\* a pile position that depends on how many piles exist: a row-major grid of
\* width ceil(sqrt(numPiles))
LayoutPilePosition_RowMajor(pileIndex, numPiles) ==
    LET g == CeilSqrt(numPiles)
    IN  SpiralResult(pileIndex % g, pileIndex \div g)

\* const { x: gridX, z: gridZ } = getPileGridPosition(pileIndex), inside the loop
\* over pileIndex < numPiles
LayoutPilePosition(pileIndex, numPiles) == getPileGridPosition(pileIndex)

\* every started block of MAX_BRICKS_PER_PILE counted as full, plus one
NumPiles_ExtraPile(total) == total \div MAX_BRICKS_PER_PILE + 1

\* const numPiles = Math.ceil(totalBricks / MAX_BRICKS_PER_PILE)
NumPiles(total) == CeilDiv(total, MAX_BRICKS_PER_PILE)

\* const bricksInPile = Math.min(remainingBricks, MAX_BRICKS_PER_PILE)
BricksInPile(remainingBricks) == Min(remainingBricks, MAX_BRICKS_PER_PILE)

\* the newest brick of every pile flagged: the index within the pile compared
IsNewBrick_PerPile(brickId, total) ==
    brickId % MAX_BRICKS_PER_PILE = (total - 1) % MAX_BRICKS_PER_PILE

\* const isNew = brickId === totalBricks - 1
IsNewBrick(brickId, total) == brickId = total - 1

\* the height taken from the brick's id in place of its index within the pile
PileBricks_GlobalHeight(gridPos, bricksInPile, brickId, total) ==
    [k \in 1..bricksInPile |->
        [id     |-> brickId + k - 1,
         pileX  |-> gridPos.x,
         pileZ  |-> gridPos.z,
         brickY |-> RatScale(brickId + k - 1, BRICK_HEIGHT),
         isNew  |-> IsNewBrick(brickId + k - 1, total)]]

\* the inner loop: the bricks of one pile, brickIndex = 0 .. bricksInPile-1
PileBricks(gridPos, bricksInPile, brickId, total) ==
    [k \in 1..bricksInPile |->
        LET brickIndex == k - 1
        IN  [id     |-> brickId + brickIndex,
             pileX  |-> gridPos.x,
             pileZ  |-> gridPos.z,
             brickY |-> RatScale(brickIndex, BRICK_HEIGHT),
             isNew  |-> IsNewBrick(brickId + brickIndex, total)]]

\* the outer loop: for (let pileIndex = 0; pileIndex < numPiles; pileIndex++)
RECURSIVE LayoutLoop(_, _, _, _, _, _)
LayoutLoop(pileIndex, numPiles, total, brickId, remainingBricks, acc) ==
    IF pileIndex < numPiles
    THEN LET gridPos      == LayoutPilePosition(pileIndex, numPiles)
             bricksInPile == BricksInPile(remainingBricks)
             pile         == [pileIndex  |-> pileIndex,
                              gridX      |-> gridPos.x,
                              gridZ      |-> gridPos.z,
                              brickCount |-> bricksInPile]
         IN  LayoutLoop(pileIndex + 1, numPiles, total,
                        brickId + bricksInPile,
                        remainingBricks - bricksInPile,
                        [brickPositions |-> acc.brickPositions
                                              \o PileBricks(gridPos, bricksInPile, brickId, total),
                         piles          |-> Append(acc.piles, pile)])
    ELSE acc

useBrickLayout(total) ==
    IF total = 0
    THEN [brickPositions |-> <<>>, piles |-> <<>>, gridSize |-> 1]
    ELSE LET numPiles == NumPiles(total)
             r == LayoutLoop(0, numPiles, total, 0, total,
                             [brickPositions |-> <<>>, piles |-> <<>>])
         IN  [brickPositions |-> r.brickPositions,
              piles          |-> r.piles,
              gridSize       |-> CeilSqrt(numPiles)]

-----------------------------------------------------------------------------
(* components/WealthTower.tsx *)

\* while (remaining > 0) { ... }
RECURSIVE PileDataLoop(_, _)
PileDataLoop(remaining, piles) ==
    IF remaining > 0
    THEN LET bricksInPile == Min(remaining, MAX_BRICKS_PER_PILE)
         IN  PileDataLoop(remaining - bricksInPile, Append(piles, bricksInPile))
    ELSE piles

\* the pile structure, with the empty placeholder pile
pileData(total) ==
    LET piles == PileDataLoop(total, <<>>)
    IN  IF Len(piles) = 0 THEN <<0>> ELSE piles

newestBrickIndex(total) == IF total > 0 THEN total - 1 ELSE -1

\* the global indices of the rendered bricks whose isNew is true
TowerNewBricks(total) ==
    LET pd == pileData(total)
    IN  UNION { LET pileStartIndex == pileIndex * MAX_BRICKS_PER_PILE
                IN  { pileStartIndex + brickIndex :
                        brickIndex \in { b \in 0..(pd[pileIndex + 1] - 1) :
                                           pileStartIndex + b = newestBrickIndex(total) } }
                : pileIndex \in 0..(Len(pd) - 1) }

WealthTower(total) ==
    [pileData |-> pileData(total), newBricks |-> TowerNewBricks(total)]

-----------------------------------------------------------------------------
(* lib/wealth-data.ts: getWealthPerMs, calculateBricks *)

\* JavaScript numbers that may be NaN or infinite
Finite(n) == [kind |-> "finite", val |-> n]
PosInfinity == [kind |-> "Infinity", val |-> 0]
NegInfinity == [kind |-> "-Infinity", val |-> 0]
NaN == [kind |-> "NaN", val |-> 0]

\* a !== b
JsStrictNotEqual(a, b) == a.kind = "NaN" \/ b.kind = "NaN" \/ a # b

\* q / k for a rational q and an integer k # 0
RatDivInt(q, k) == IF k > 0 THEN Rat(q.num, q.den * k) ELSE Rat(-q.num, q.den * (-k))

\* the rate with the opposite sign
getWealthPerMs_Negated(p) == Rat(-p.dailyIncrease, 24 * 60 * 60 * 1000)

\* profile.dailyIncrease / (24 * 60 * 60 * 1000)
getWealthPerMs(p) == Rat(p.dailyIncrease, 24 * 60 * 60 * 1000)

\* q.toFixed(2) as a number of hundredths
ToFixed2(q) == (200 * q.num + q.den) \div (2 * q.den)

\* formatCurrency(amount): the digits, in hundredths, and the suffix of the text
formatCurrency(amount) ==
    LET whole == RatFloor(amount)
    IN  IF whole \div 1000 >= 1000000000
        THEN [hundredths |-> ToFixed2(RatDivInt(amount, 1000000 * 1000000)), suffix |-> "T"]
        ELSE IF whole >= 1000000000
        THEN [hundredths |-> ToFixed2(RatDivInt(amount, 1000000000)), suffix |-> "B"]
        ELSE IF whole >= 1000000
        THEN [hundredths |-> ToFixed2(RatDivInt(amount, 1000000)), suffix |-> "M"]
        ELSE IF whole >= 1000
        THEN [hundredths |-> ToFixed2(RatDivInt(amount, 1000)), suffix |-> "K"]
        ELSE [hundredths |-> ToFixed2(amount), suffix |-> ""]

\* Math.round in place of Math.floor
calculateBricks_Round(wealth, brickValue) ==
    IF brickValue = 0
    THEN IF wealth.num = 0 THEN NaN
         ELSE IF wealth.num > 0 THEN PosInfinity ELSE NegInfinity
    ELSE LET q == RatDivInt(wealth, brickValue)
         IN  Finite((2 * q.num + q.den) \div (2 * q.den))

\* Math.floor(wealth / brickValue); a division by 0 gives NaN or an infinity
calculateBricks(wealth, brickValue) ==
    IF brickValue = 0
    THEN IF wealth.num = 0 THEN NaN
         ELSE IF wealth.num > 0 THEN PosInfinity ELSE NegInfinity
    ELSE Finite(RatFloor(RatDivInt(wealth, brickValue)))

-----------------------------------------------------------------------------
(* lib/use-wealth-animation.ts: useWealthAnimation *)

\* The profiles passed to the hook.  The rates are 1, 2 and 1/4 dollars per
\* millisecond; "zero" and "negative" are the invalid profiles.
Profiles ==
    { [id |-> "second",   netWorth |-> 100000, dailyIncrease |-> 86400000,  brickValue |-> 1000],
      [id |-> "double",   netWorth |-> 100000, dailyIncrease |-> 172800000, brickValue |-> 1000],
      [id |-> "quarter",  netWorth |-> 2500,   dailyIncrease |-> 21600000,  brickValue |-> 1],
      [id |-> "zero",     netWorth |-> 100000, dailyIncrease |-> 86400000,  brickValue |-> 0],
      [id |-> "negative", netWorth |-> 100000, dailyIncrease |-> 86400000,  brickValue |-> -1000] }

NoProfile == [id |-> "none", netWorth |-> 0, dailyIncrease |-> 0, brickValue |-> 0]

\* the timestamps the browser passes to animation frame callbacks
Instants == { t \in 0..MaxTime : t % FramePeriod \in {0, FrameJitter} }

\* useState(() => ({ currentWealth: 0, totalBricks: 0, elapsedMs: 0 }))
InitialWealthState ==
    [currentWealth |-> RatInt(0), totalBricks |-> Finite(0), elapsedMs |-> 0]

NoFrame ==
    [ran |-> FALSE, timestamp |-> 0, elapsedMs |-> 0, currentWealth |-> RatInt(0),
     totalBricks |-> Finite(0), divisor |-> 0, profile |-> NoProfile]

\* a handle that names no pending request and not the one in animationFrameRef
FreshHandle(queue, ref) ==
    CHOOSE id \in 1..(Cardinality(queue) + 2) :
        id \notin ref /\ \A r \in queue : r.id # id

\* requestAnimationFrame(cb): the queue with the new request, and its handle
RequestFrame(queue, ref, cb) ==
    LET id == FreshHandle(queue, ref)
    IN  [queue |-> queue \cup {[id |-> id, brickValue |-> cb.brickValue]}, id |-> id]

CancelFrame_Noop(queue, ref) == queue

\* cancelAnimationFrame(animationFrameRef.current) when it is not null
CancelFrame(queue, ref) == { r \in queue : r.id \notin ref }

\* throttling by the elapsed time alone
ThrottledState_BucketOnly(prev, next) ==
    IF prev.elapsedMs \div 100 # next.elapsedMs \div 100 THEN next ELSE prev

\* setState(prev => ...): the state is replaced when the brick count changed or
\* the elapsed time entered another 100 ms bucket
ThrottledState(prev, next) ==
    IF \/ JsStrictNotEqual(prev.totalBricks, next.totalBricks)
       \/ prev.elapsedMs \div 100 # next.elapsedMs \div 100
    THEN next
    ELSE prev

\* WealthTower: the amount shown under the name, formatCurrency(currentWealth)
TowerWealthShown == formatCurrency(state.currentWealth)

\* the locals of animate(timestamp) run with the closure cb
AnimateLocals(timestamp, start, cb) ==
    LET elapsedMs     == timestamp - start
        currentWealth == RatScale(elapsedMs, wealthPerMsRef)
    IN  [ran |-> TRUE, timestamp |-> timestamp, elapsedMs |-> elapsedMs,
         currentWealth |-> currentWealth,
         totalBricks |-> calculateBricks(currentWealth, cb.brickValue),
         divisor |-> cb.brickValue, profile |-> profile]

-----------------------------------------------------------------------------
(* lib/use-billionaire-data.ts, lib/rtb-api.ts: useBillionaireData *)
(* Net worths are in millions of dollars.                                  *)

ENABLE_API_CALLS == FALSE

BILLIONAIRES_FALLBACK ==
    << [id |-> "musk", name |-> "Elon Musk", netWorth |-> 250000,
        startingWealth |-> 250000, dailyIncrease |-> 68000000,
        brickValue |-> 1000, isLiveData |-> FALSE],
       [id |-> "bezos", name |-> "Jeff Bezos", netWorth |-> 200000,
        startingWealth |-> 200000, dailyIncrease |-> 50000000,
        brickValue |-> 1000, isLiveData |-> FALSE],
       [id |-> "zuckerberg", name |-> "Mark Zuckerberg", netWorth |-> 180000,
        startingWealth |-> 180000, dailyIncrease |-> 45000000,
        brickValue |-> 1000, isLiveData |-> FALSE] >>

BILLIONAIRE_STYLES ==
    [id \in {"musk", "bezos", "zuckerberg"} |-> [brickValue |-> 1000]]

billionaireIds == <<"musk", "bezos", "zuckerberg">>

FallbackOf_First(id) == BILLIONAIRES_FALLBACK[1]

\* BILLIONAIRES_FALLBACK.find(b => b.id === id)!
FallbackOf(id) ==
    BILLIONAIRES_FALLBACK[CHOOSE k \in 1..Len(BILLIONAIRES_FALLBACK) :
                              BILLIONAIRES_FALLBACK[k].id = id]

\* what the RTB API answers for latest.json: no answer, or a net worth in millions
RtbAnswers == { [ok |-> FALSE, netWorth |-> 0], [ok |-> TRUE, netWorth |-> 190000] }

NoData == [found |-> FALSE, name |-> "", netWorth |-> 0, dailyIncrease |-> 0]

\* fetchBillionaireLatest: null while the API calls are disabled
fetchBillionaireLatest(answer) ==
    IF ~ENABLE_API_CALLS THEN [found |-> FALSE, netWorth |-> 0]
    ELSE IF ~answer.ok THEN [found |-> FALSE, netWorth |-> 0]
    ELSE [found |-> TRUE, netWorth |-> answer.netWorth]

\* fetchBillionaireData: null without latest data; the history is empty while
\* the API calls are disabled, which gives dailyIncrease 0
fetchBillionaireData(answer, fallbackName) ==
    LET latest == fetchBillionaireLatest(answer)
    IN  IF ~latest.found THEN NoData
        ELSE [found |-> TRUE, name |-> fallbackName,
              netWorth |-> latest.netWorth, dailyIncrease |-> 0]

\* the bodies /api/wealth may answer with, as far as fetchData reads them:
\* netWorth 0 stands for a missing or zero data.elonMusk.netWorth
WealthBodies ==
    [success : BOOLEAN, source : {"cache", "fallback"}, netWorth : {0, 400000}]

NoMusk == [netWorth |-> 0, source |-> "fallback"]

\* the inner try block once the body has been parsed: muskNetWorth and
\* muskDataSource
ReadWealthBody(body) ==
    IF body.success /\ body.netWorth # 0
    THEN [netWorth |-> body.netWorth, source |-> body.source]
    ELSE NoMusk

MuskIsLive_Always(muskDataSource) == TRUE

\* isLiveData: muskDataSource === 'cache'
MuskIsLive(muskDataSource) == muskDataSource = "cache"

\* the callback of billionaireIds.map for one id
BuildProfile(id, musk, answer) ==
    LET fallback == FallbackOf(id)
        styles   == BILLIONAIRE_STYLES[id]
        data     == fetchBillionaireData(answer, fallback.name)
    IN  IF id = "musk" /\ musk.netWorth # 0
        THEN [id |-> id, name |-> "Elon Musk", netWorth |-> musk.netWorth,
              startingWealth |-> musk.netWorth,
              dailyIncrease |-> fallback.dailyIncrease,
              brickValue |-> styles.brickValue,
              isLiveData |-> MuskIsLive(musk.source)]
        ELSE IF data.found
        THEN [id |-> id, name |-> data.name, netWorth |-> data.netWorth,
              startingWealth |-> data.netWorth,
              dailyIncrease |-> IF data.dailyIncrease > 0 THEN data.dailyIncrease
                                ELSE fallback.dailyIncrease,
              brickValue |-> styles.brickValue,
              isLiveData |-> TRUE]
        ELSE fallback

\* the results of Promise.all
BuildResults(musk, answers) ==
    [k \in 1..Len(billionaireIds) |-> BuildProfile(billionaireIds[k], musk, answers[k])]

\* where the net worth of the profile of id came from: the answer of
\* /api/wealth (by its source), the RTB API, or the static fallback
OriginOf(id, musk, answer) ==
    IF id = "musk" /\ musk.netWorth # 0
    THEN IF musk.source = "cache" THEN "wealth-cache" ELSE "wealth-fallback"
    ELSE IF ENABLE_API_CALLS /\ answer.ok THEN "rtb"
    ELSE "static"

StaticOrigins == [k \in 1..Len(billionaireIds) |-> "static"]

\* WealthVisualization: profiles.find(p => p.id === 'musk') || profiles[0]
elonMusk ==
    IF \E k \in 1..Len(profiles) : profiles[k].id = "musk"
    THEN profiles[CHOOSE k \in 1..Len(profiles) :
                      /\ profiles[k].id = "musk"
                      /\ \A j \in 1..(k - 1) : profiles[j].id # "musk"]
    ELSE profiles[1]

\* WealthVisualization: {error ? <div>Using estimated data ...</div> : null}
EstimatedDataIndicator == error # "null"

-----------------------------------------------------------------------------
(* lib/wealth-cache.ts: the cache in Redis.  Dollar amounts are in millions  *)
(* of dollars, times are in seconds.                                        *)

WEALTH_DATA_KEY == "wealth:billionaires"
ELON_KEY == "wealth:elon-musk"

TTL_SECONDS_OneDay == 24 * 60 * 60

\* 35 days in seconds
TTL_SECONDS == 35 * 24 * 60 * 60

\* JavaScript values of the fields that are numbers or may be anything: a
\* number, NaN, a string of digits (val is the number it spells), undefined
\* or null
JsNumber(n) == [type |-> "number", val |-> n]
JsNaN == [type |-> "nan", val |-> 0]
JsString(n) == [type |-> "string", val |-> n]
JsUndefined == [type |-> "undefined", val |-> 0]
JsNull == [type |-> "null", val |-> 0]

\* typeof v === 'number'
TypeofNumber(v) == v.type \in {"number", "nan"}

Truthy_Always(v) == TRUE

\* the truthiness of v
Truthy(v) ==
    CASE v.type = "number" -> v.val # 0
      [] v.type = "string" -> TRUE
      [] OTHER -> FALSE

\* JSON.stringify of a number-valued property: NaN is written as null, an
\* undefined property is left out (and is undefined again when read)
JsonValue(v) == IF v.type = "nan" THEN JsNull ELSE v

\* JSON.stringify(data.elonMusk)
JsonStringifyBillionaire(b) ==
    [text |-> [b EXCEPT !.netWorth = JsonValue(b.netWorth), !.rank = JsonValue(b.rank)]]

\* JSON.stringify(data)
JsonStringify(data) ==
    [text |-> [data EXCEPT !.elonMusk = JsonStringifyBillionaire(data.elonMusk).text]]

\* JSON.parse(text)
JsonParse(json) == json.text

\* the outcomes of the commands sent to Redis in one call: whether connect()
\* and the first and the second command succeed
RedisOutcomes ==
    { [connect |-> TRUE,  first |-> TRUE,  second |-> TRUE],
      [connect |-> FALSE, first |-> TRUE,  second |-> TRUE],
      [connect |-> TRUE,  first |-> FALSE, second |-> TRUE],
      [connect |-> TRUE,  first |-> TRUE,  second |-> FALSE] }

NoRedisClient == [exists |-> FALSE, isOpen |-> FALSE]

EmptyStore == [key \in {WEALTH_DATA_KEY, ELON_KEY} |-> {}]

\* Redis SETEX key seconds value, at the time t
RedisSetEx(st, key, seconds, value, t) ==
    [st EXCEPT ![key] = {[text |-> value, expiresAt |-> t + seconds]}]

\* Redis GET key at the time t: {} is null
RedisGet(st, key, t) == { e.text : e \in { e \in st[key] : t < e.expiresAt } }

\* the keys that have expired by the time t are gone
RedisExpire(st, t) == [key \in DOMAIN st |-> { e \in st[key] : t < e.expiresAt }]

\* isRedisConfigured()
isRedisConfigured == env.REDIS_URL

\* getRedisClient(): the client the module holds afterwards, and whether a
\* client was returned
getRedisClient(net) ==
    IF ~env.REDIS_URL THEN [client |-> redisClient, found |-> FALSE]
    ELSE IF redisClient.exists /\ redisClient.isOpen
    THEN [client |-> redisClient, found |-> TRUE]
    ELSE [client |-> [exists |-> TRUE, isOpen |-> net.connect], found |-> net.connect]

\* setWealthCache(data): its result, the store and the client afterwards
setWealthCache(data, net) ==
    LET c      == getRedisClient(net)
        first  == RedisSetEx(store, WEALTH_DATA_KEY, TTL_SECONDS,
                             JsonStringify(data), clock)
        second == RedisSetEx(first, ELON_KEY, TTL_SECONDS,
                             JsonStringifyBillionaire(data.elonMusk), clock)
    IN  IF ~c.found THEN [result |-> FALSE, store |-> store, client |-> c.client]
        ELSE IF ~net.first THEN [result |-> FALSE, store |-> store, client |-> c.client]
        ELSE IF ~net.second THEN [result |-> FALSE, store |-> first, client |-> c.client]
        ELSE [result |-> TRUE, store |-> second, client |-> c.client]

\* getWealthCache(): {} is null
getWealthCache(net) ==
    LET c    == getRedisClient(net)
        data == RedisGet(store, WEALTH_DATA_KEY, clock)
    IN  [result |-> IF c.found /\ net.first THEN { JsonParse(t) : t \in data } ELSE {},
         client |-> c.client]

\* getElonWealthCache(): {} is null
getElonWealthCache(net) ==
    LET c    == getRedisClient(net)
        data == RedisGet(store, ELON_KEY, clock)
    IN  [result |-> IF c.found /\ net.first THEN { JsonParse(t) : t \in data } ELSE {},
         client |-> c.client]

-----------------------------------------------------------------------------
(* app/api/wealth/route.ts: GET /api/wealth *)

\* muskProfile?.netWorth || 350_000_000_000: WEALTH_PROFILES is not among the
\* sources, the default of the expression stands for the static net worth
WealthFallbackNetWorth == 350000

\* the static data of the fallback answer, at the time t
WealthFallbackData(t) ==
    [elonMusk |-> [id |-> "elon-musk", name |-> "Elon Musk",
                   netWorth |-> JsNumber(WealthFallbackNetWorth),
                   rank |-> JsNumber(1),
                   source |-> "Fallback (Forbes API cache unavailable)",
                   lastUpdated |-> t],
     updatedAt |-> t]

WealthSource_AlwaysCache(cachedData) == "cache"

\* the source of the answer: 'cache' when getWealthCache() returned data
WealthSource(cachedData) == IF cachedData # {} THEN "cache" ELSE "fallback"

\* GET(): the response and the client afterwards
WealthGET(net) ==
    LET read       == getWealthCache(net)
        cachedData == IF isRedisConfigured THEN read.result ELSE {}
        source     == WealthSource(cachedData)
    IN  [response |-> [status |-> 200, success |-> TRUE, source |-> source,
                       data |-> IF source = "cache" THEN cachedData
                                ELSE {WealthFallbackData(clock)}],
         client |-> IF isRedisConfigured THEN read.client ELSE redisClient]

-----------------------------------------------------------------------------
(* app/api/cron/update-wealth/route.ts: the refresh endpoint, in its two     *)
(* revisions among the sources                                               *)

\* 1_000_000_000 and 1_000_000 dollars, in millions of dollars
BillionDollars == 1000
MillionDollars == 1

\* the requests: the Authorization header ("" when there is none) and the
\* header x-vercel-cron ("" when there is none)
Requests ==
    [method : {"GET", "POST"},
     authorization : {"", "Bearer s3cret", "Bearer wrong"},
     vercelCron : {"", "1"}]

\* what the Forbes API answers with, as far as the endpoint reads it: name ""
\* stands for no name
ForbesBody(current_worth, finalWorth, netWorth, name, rank) ==
    [current_worth |-> current_worth, finalWorth |-> finalWorth,
     netWorth |-> netWorth, name |-> name, rank |-> rank]

ForbesBodies ==
    { ForbesBody(JsNumber(851), JsUndefined, JsUndefined, "Elon R. Musk", JsNumber(2)),
      ForbesBody(JsNumber(851), JsNumber(250000), JsNumber(400), "", JsUndefined),
      ForbesBody(JsUndefined, JsNumber(250000), JsNumber(400), "", JsUndefined),
      ForbesBody(JsString(851), JsNumber(250000), JsUndefined, "", JsUndefined),
      ForbesBody(JsUndefined, JsUndefined, JsNumber(400), "", JsUndefined),
      ForbesBody(JsNumber(0), JsUndefined, JsNumber(400), "", JsUndefined),
      ForbesBody(JsString(851), JsUndefined, JsString(350), "", JsUndefined),
      ForbesBody(JsUndefined, JsUndefined, JsUndefined, "Elon R. Musk", JsNumber(2)) }

\* the answers of the Forbes API: {} when the request fails, the status is not
\* ok or the body is not JSON
ForbesAnswers == {{}} \cup { {b} : b \in ForbesBodies }

\* fetchFromForbesAPI('elon-musk'): {} is null
fetchFromForbesAPI(answer) == IF ~env.RAPIDAPI_KEY THEN {} ELSE answer

\* a request is sent to the Forbes API when the key is configured
ForbesApiCalled == env.RAPIDAPI_KEY

\* `Bearer ${cronSecret}`
BearerOf(cronSecret) == "Bearer " \o cronSecret

\* isVercelCron || !cronSecret || authHeader === `Bearer ${cronSecret}`
isAuthorized(request) ==
    \/ request.vercelCron = "1"
    \/ env.CRON_SECRET = ""
    \/ request.authorization = BearerOf(env.CRON_SECRET)

\* product of a number and a constant
JsTimes(v, k) == JsNumber(v.val * k)

ParseNetWorth_NetWorthFirst(apiData) ==
    IF TypeofNumber(apiData.netWorth) THEN JsTimes(apiData.netWorth, BillionDollars)
    ELSE IF TypeofNumber(apiData.finalWorth)
    THEN JsTimes(apiData.finalWorth, MillionDollars)
    ELSE IF TypeofNumber(apiData.current_worth)
    THEN JsTimes(apiData.current_worth, BillionDollars)
    ELSE JsNull

\* netWorthDollars: current_worth in billions, else finalWorth in millions,
\* else netWorth in billions, else null
ParseNetWorth(apiData) ==
    IF TypeofNumber(apiData.current_worth)
    THEN JsTimes(apiData.current_worth, BillionDollars)
    ELSE IF TypeofNumber(apiData.finalWorth)
    THEN JsTimes(apiData.finalWorth, MillionDollars)
    ELSE IF TypeofNumber(apiData.netWorth)
    THEN JsTimes(apiData.netWorth, BillionDollars)
    ELSE JsNull

\* Object.keys(apiData)
ObjectKeys(apiData) ==
    { f \in {"current_worth", "finalWorth", "netWorth", "rank"} :
          apiData[f].type # "undefined" }
    \cup (IF apiData.name # "" THEN {"name"} ELSE {})

\* the record the endpoint builds from the answer, at the time t
RefreshWealthData(apiData, netWorthDollars, t) ==
    [elonMusk |-> [id |-> "elon-musk",
                   name |-> IF apiData.name # "" THEN apiData.name ELSE "Elon Musk",
                   netWorth |-> netWorthDollars,
                   rank |-> IF TypeofNumber(apiData.rank) THEN apiData.rank
                            ELSE JsNumber(1),
                   source |-> "Forbes Billionaires API",
                   lastUpdated |-> t],
     updatedAt |-> t]

\* a response of the endpoint; {} for data and "absent" for the fields that
\* the body does not have
RefreshResponse(status, success, stored, data, message, availableFields) ==
    [status |-> status, success |-> success, stored |-> stored, data |-> data,
     error |-> message, availableFields |-> availableFields]

\* NextResponse.json(body): the record as the client reads it
ResponseJson(data) == JsonParse(JsonStringify(data))

NoWrite == [called |-> FALSE, result |-> FALSE, data |-> {}, time |-> 0]

\* what a handler did: its response, and the store, the client and the last
\* call of setWealthCache afterwards
Handled(response, apiCalled, written) ==
    [response |-> response, apiCalled |-> apiCalled,
     store |-> IF written.called THEN written.store ELSE store,
     client |-> IF written.called THEN written.client ELSE redisClient,
     write |-> IF written.called
               THEN [called |-> TRUE, result |-> written.result,
                     data |-> written.data, time |-> clock]
               ELSE lastWrite]

NotWritten == [called |-> FALSE]

\* the call of setWealthCache(wealthData) by a handler
Written(wealthData, net) ==
    LET w == setWealthCache(wealthData, net)
    IN  [called |-> TRUE, result |-> w.result, store |-> w.store,
         client |-> w.client, data |-> {wealthData}]

\* stored: isRedisConfigured()
StoredField(written) == IF isRedisConfigured THEN "true" ELSE "false"

\* GET(request) of the revision with the scheduler header
RefreshGET(request, answer, net) ==
    LET elonData        == fetchFromForbesAPI(answer)
        apiData         == CHOOSE b \in elonData : TRUE
        netWorthDollars == ParseNetWorth(apiData)
        wealthData      == RefreshWealthData(apiData, netWorthDollars, clock)
        written         == IF isRedisConfigured THEN Written(wealthData, net)
                           ELSE NotWritten
    IN  IF ~isAuthorized(request)
        THEN Handled(RefreshResponse(401, "absent", "absent", {}, "Unauthorized", {}),
                     FALSE, NotWritten)
        ELSE IF elonData = {}
        THEN Handled(RefreshResponse(500, "absent", "absent", {},
                                     "Failed to fetch data from Forbes API", {}),
                     ForbesApiCalled, NotWritten)
        ELSE IF ~Truthy(netWorthDollars)
        THEN Handled(RefreshResponse(500, "false", "absent", {},
                                     "Could not parse net worth from API response",
                                     ObjectKeys(apiData)),
                     ForbesApiCalled, NotWritten)
        ELSE Handled(RefreshResponse(200, "true", StoredField(written),
                                     {ResponseJson(wealthData)}, "", {}),
                     ForbesApiCalled, written)

\* POST(request): return GET(request)
RefreshPOST(request, answer, net) == RefreshGET(request, answer, net)

\* The revision at app/api/cron/update-wealth/route.ts: the secret is verified
\* in production only, the net worth is read from netWorth alone.

\* not (NODE_ENV === 'production' && cronSecret && authHeader !== `Bearer ...`)
CronAuthorized(request) ==
    ~(/\ env.NODE_ENV = "production"
      /\ env.CRON_SECRET # ""
      /\ request.authorization # BearerOf(env.CRON_SECRET))

\* netWorthDollars: netWorth in billions when it is a number, else
\* parseFloat of the digits of String(netWorth), NaN when there are none
CronNetWorth(elonData) ==
    IF TypeofNumber(elonData.netWorth) THEN JsTimes(elonData.netWorth, BillionDollars)
    ELSE IF elonData.netWorth.type = "string"
    THEN JsTimes(elonData.netWorth, BillionDollars)
    ELSE JsNaN

\* the record this revision builds: rank is elonData.rank || elonData.position
CronWealthData(elonData, netWorthDollars, t) ==
    [elonMusk |-> [id |-> "elon-musk",
                   name |-> IF elonData.name # "" THEN elonData.name ELSE "Elon Musk",
                   netWorth |-> netWorthDollars,
                   rank |-> IF Truthy(elonData.rank) THEN elonData.rank
                            ELSE JsUndefined,
                   source |-> "Forbes Billionaires API",
                   lastUpdated |-> t],
     updatedAt |-> t]

\* GET(request) of this revision
CronGET(request, answer, net) ==
    LET fetched         == fetchFromForbesAPI(answer)
        elonData        == CHOOSE b \in fetched : TRUE
        netWorthDollars == CronNetWorth(elonData)
        wealthData      == CronWealthData(elonData, netWorthDollars, clock)
        written         == IF isRedisConfigured THEN Written(wealthData, net)
                           ELSE NotWritten
    IN  IF ~CronAuthorized(request)
        THEN Handled(RefreshResponse(401, "absent", "absent", {}, "Unauthorized", {}),
                     FALSE, NotWritten)
        ELSE IF fetched = {}
        THEN Handled(RefreshResponse(500, "absent", "absent", {},
                                     "Failed to fetch data from Forbes API", {}),
                     ForbesApiCalled, NotWritten)
        ELSE Handled(RefreshResponse(200, "true", StoredField(written),
                                     {ResponseJson(wealthData)}, "", {}),
                     ForbesApiCalled, written)

\* POST(request): return GET(request)
CronPOST(request, answer, net) == CronGET(request, answer, net)

-----------------------------------------------------------------------------
(* The server: its environment, its clock and the requests it answers *)

\* the environments of the server: "" is no CRON_SECRET
Envs ==
    [REDIS_URL : BOOLEAN, CRON_SECRET : {"", "s3cret"}, RAPIDAPI_KEY : BOOLEAN,
     NODE_ENV : {"production", "development"}]

\* the times of the clock
ClockInstants ==
    { k * ClockStep - j : k \in 1..MaxClockSteps, j \in {0, 1} }

\* nothing was served yet
NoRequest == [count |-> 0, endpoint |-> "none"]

-----------------------------------------------------------------------------
(* The 3D scene: ThousandDollarPile and PennyPile *)
(* Lengths are in feet (UNIT_SCALE = 1).                                   *)

\* BILL_LENGTH, BILL_WIDTH, BILL_THICKNESS * 10
THOUSAND_BRICK ==
    [width |-> Rat(512, 1000), depth |-> Rat(218, 1000), height |-> Rat(358, 100000)]

\* (0.75 / 12 / 2) * UNIT_SCALE
PENNY_RADIUS == Rat(75, 100 * 12 * 2)

\* (0.0598 / 12) * UNIT_SCALE
PENNY_THICKNESS == Rat(598, 10000 * 12)

\* the product of two rationals
RatTimes(a, b) == Rat(a.num * b.num, a.den * b.den)

\* Math.cos(k * (Math.PI / 4)) as whole + root * sqrt(1/2)
CosEighth(k) ==
    LET d == k % 8
    IN  [whole |-> IF d = 0 THEN 1 ELSE IF d = 4 THEN -1 ELSE 0,
         root  |-> IF d \in {1, 7} THEN 1 ELSE IF d \in {3, 5} THEN -1 ELSE 0]

\* Math.sin(k * (Math.PI / 4)) as whole + root * sqrt(1/2)
SinEighth(k) == CosEighth(k + 6)

\* trig * radius as a double: the exact product whole + root * sqrt(1/2), and
\* the rounding of Math.cos and Math.sin, which are implementation-approximated:
\* for an angle that lies whole turns beyond [0, 2 pi) the engine returns the
\* double of the first turn (roundoff 0) or one that differs from it in its
\* last bits by an amount that grows with the turns (roundoff 1)
TrigTimes(trig, radius, turns, roundoff) ==
    [whole |-> RatScale(trig.whole, radius),
     root  |-> RatScale(trig.root, radius),
     ulps  |-> IF radius.num = 0 THEN 0 ELSE roundoff * turns]

\* const maxPerStack = 20
maxPerStack == 20

\* const stackIndex = Math.floor(i / maxPerStack)
ThousandDollarStack(i) == i \div maxPerStack

\* the body of the loop of ThousandDollarPile for the brick i
ThousandDollarPosition(i, roundoff) ==
    LET stackIndex  == ThousandDollarStack(i)
        heightIndex == i % maxPerStack
        radius      == IF stackIndex = 0 THEN RatInt(0)
                       ELSE RatTimes(THOUSAND_BRICK.width, Rat(3, 2))
    IN  [x |-> TrigTimes(CosEighth(stackIndex), radius, stackIndex \div 8, roundoff),
         y |-> RatTimes(THOUSAND_BRICK.height, Rat(2 * heightIndex + 1, 2)),
         z |-> TrigTimes(SinEighth(stackIndex), radius, stackIndex \div 8, roundoff),
         index |-> i]

\* ThousandDollarPile: bricks, pileHeight and the brick that glows
ThousandDollarPile(count, newestIndex, roundoff) ==
    [bricks     |-> [k \in 1..count |-> ThousandDollarPosition(k - 1, roundoff)],
     pileHeight |-> RatScale(Min(count, maxPerStack), THOUSAND_BRICK.height),
     glowing    |-> { i \in 0..(count - 1) : i = newestIndex }]

\* const maxPenniesPerStack = 100
maxPenniesPerStack == 100

\* the body of the loop of PennyPile for the penny i
PennyPosition(i) ==
    LET stackIndex   == i \div maxPenniesPerStack
        pennyInStack == i % maxPenniesPerStack
    IN  [x |-> RatScale(stackIndex, RatTimes(PENNY_RADIUS, Rat(22, 10))),
         \* pennyInStack * PENNY_THICKNESS + PENNY_THICKNESS / 2
         y |-> RatTimes(PENNY_THICKNESS, Rat(2 * pennyInStack + 1, 2)),
         z |-> RatInt(0)]

\* count % maxPenniesPerStack || (count > 0 ? maxPenniesPerStack : 0)
currentStackPennies(count) ==
    IF count % maxPenniesPerStack # 0 THEN count % maxPenniesPerStack
    ELSE IF count > 0 THEN maxPenniesPerStack ELSE 0

\* PennyPile: pennyPositions, pileHeight, fallingPennyX
PennyPile(count) ==
    LET currentStackIndex == IF count > 0 THEN (count - 1) \div maxPenniesPerStack ELSE 0
    IN  [pennyPositions |-> [k \in 1..count |-> PennyPosition(k - 1)],
         pileHeight     |-> RatScale(currentStackPennies(count), PENNY_THICKNESS),
         fallingPennyX  |-> RatScale(currentStackIndex, RatTimes(PENNY_RADIUS, Rat(22, 10)))]

\* no Scene is rendered
NoScene ==
    [mounted |-> FALSE, isBillionaire |-> FALSE, count |-> 0, roundoff |-> 0,
     thousandDollarPile |-> {}, pennyPile |-> {}]

\* the growth visualization of Scene: the brick pile of a billionaire once
\* growthBricks > 0, the penny pile of a household
Scene(isBillionaire, count, roundoff) ==
    [mounted |-> TRUE, isBillionaire |-> isBillionaire, count |-> count,
     roundoff |-> roundoff,
     thousandDollarPile |-> IF isBillionaire /\ count > 0
                            THEN {ThousandDollarPile(count, count - 1, roundoff)}
                            ELSE {},
     pennyPile |-> IF isBillionaire THEN {} ELSE {PennyPile(count)}]

-----------------------------------------------------------------------------
(* lib/wealth-cache.ts under concurrent calls: every await is a step *)

CacheOps == {"setWealthCache", "getWealthCache", "getElonWealthCache"}

\* createClient({ url: redisUrl }).  isOpen of a client whose connect() was
\* called and has not settled is the library's: `early` is its value
createClient(early) == [status |-> "connecting", isOpen |-> early]

\* the clients that hold or are opening a connection
LiveClients == { i \in 1..Len(clients) : clients[i].status \in {"connecting", "ready"} }

\* redisClient && redisClient.isOpen
HasOpenClient == \E i \in redisClientRef : clients[i].isOpen

\* a call that has returned
CallDone(op, result) ==
    [op |-> op, pc |-> "done", mine |-> {}, client |-> {}, result |-> result]

\* the data written by the calls of setWealthCache
CallData == WealthFallbackData(clock)

-----------------------------------------------------------------------------
(* Initial state and actions *)

Init ==
    /\ spiralPiles = <<>>
    /\ totalBricks = 0
    /\ layout = useBrickLayout(0)
    /\ tower = WealthTower(0)
    /\ animMounted = FALSE
    /\ profile = NoProfile
    /\ state = InitialWealthState
    /\ startTimeRef = {}
    /\ animationFrameRef = {}
    /\ wealthPerMsRef = RatInt(0)
    /\ animate = [brickValue |-> 0]
    /\ rafQueue = {}
    /\ now = 0
    /\ frame = NoFrame
    /\ bind = [time |-> 0, switched |-> FALSE, framed |-> FALSE]
    /\ dataLife = "initial"
    /\ profiles = BILLIONAIRES_FALLBACK
    /\ isLoading = TRUE
    /\ error = "null"
    /\ fetches = <<>>
    /\ lateCalls = {}
    /\ origins = StaticOrigins
    /\ env = [REDIS_URL |-> FALSE, CRON_SECRET |-> "", RAPIDAPI_KEY |-> FALSE,
              NODE_ENV |-> "development"]
    /\ clock = 0
    /\ redisClient = NoRedisClient
    /\ store = EmptyStore
    /\ lastWrite = NoWrite
    /\ served = NoRequest
    /\ scene = NoScene
    /\ clients = <<>>
    /\ redisClientRef = {}
    /\ calls = <<>>

\* pile index n = Len(spiralPiles) is introduced after the piles 0 .. n-1
AddPile ==
    /\ Len(spiralPiles) < MaxPiles
    /\ spiralPiles' = Append(spiralPiles, getPileGridPosition(Len(spiralPiles)))
    /\ UNCHANGED <<layoutVars, animVars, fetchVars, serverVars, sceneVars, clientVars>>

\* a new layout starts from no piles
ResetPiles ==
    /\ spiralPiles # <<>>
    /\ spiralPiles' = <<>>
    /\ UNCHANGED <<layoutVars, animVars, fetchVars, serverVars, sceneVars, clientVars>>

NextSpiral == AddPile \/ ResetPiles

SpecSpiral == Init /\ [][NextSpiral]_vars

\* the brick count changes and the layout and the tower are recomputed
Render ==
    \E n \in 0..MaxBricks :
        /\ n # totalBricks
        /\ totalBricks' = n
        /\ layout' = useBrickLayout(n)
        /\ tower' = WealthTower(n)
        /\ UNCHANGED <<spiralVars, animVars, fetchVars, serverVars, sceneVars, clientVars>>

NextLayout == Render

SpecLayout == Init /\ [][NextLayout]_vars


-----------------------------------------------------------------------------
(* useWealthAnimation: mount, change of the profile, animation frame, unmount *)

\* first render and its effects: the refs are created, the first frame is requested
MountAnimation ==
    \E p \in Profiles :
        LET cb  == [brickValue |-> p.brickValue]
            req == RequestFrame(rafQueue, {}, cb)
        IN  /\ ~animMounted
            /\ animMounted' = TRUE
            /\ profile' = p
            /\ state' = InitialWealthState
            /\ startTimeRef' = {}
            /\ wealthPerMsRef' = getWealthPerMs(p)
            /\ animate' = cb
            /\ rafQueue' = req.queue
            /\ animationFrameRef' = {req.id}
            /\ frame' = NoFrame
            /\ bind' = [time |-> now, switched |-> FALSE, framed |-> FALSE]
            /\ UNCHANGED <<now, spiralVars, layoutVars, fetchVars, serverVars, sceneVars, clientVars>>

\* a render with another profile and its effects: wealthPerMsRef is updated;
\* when profile.brickValue changed, animate is re-created, the cleanup of the
\* frame effect cancels the pending frame and the effect requests a new one
ChangeProfile ==
    \E p \in Profiles :
        LET cb        == [brickValue |-> p.brickValue]
            recreated == cb # animate
            cancelled == CancelFrame(rafQueue, animationFrameRef)
            req       == RequestFrame(cancelled, animationFrameRef, cb)
        IN  /\ animMounted
            /\ p # profile
            /\ profile' = p
            /\ wealthPerMsRef' = getWealthPerMs(p)
            /\ animate' = cb
            /\ rafQueue' = IF recreated THEN req.queue ELSE rafQueue
            /\ animationFrameRef' = IF recreated THEN {req.id} ELSE animationFrameRef
            /\ bind' = [time |-> now, switched |-> TRUE, framed |-> FALSE]
            /\ UNCHANGED <<animMounted, state, startTimeRef, now, frame,
                           spiralVars, layoutVars, fetchVars, serverVars, sceneVars, clientVars>>

\* the browser runs a requested frame: animate(timestamp)
AnimationFrame ==
    \E r \in rafQueue, timestamp \in Instants :
        LET cb     == [brickValue |-> r.brickValue]
            start  == IF startTimeRef = {} THEN timestamp
                      ELSE CHOOSE t \in startTimeRef : TRUE
            locals == AnimateLocals(timestamp, start, cb)
            next   == [currentWealth |-> locals.currentWealth,
                       totalBricks   |-> locals.totalBricks,
                       elapsedMs     |-> locals.elapsedMs]
            req    == RequestFrame(rafQueue \ {r}, animationFrameRef, cb)
        IN  /\ timestamp > now
            /\ now' = timestamp
            /\ startTimeRef' = {start}
            /\ frame' = locals
            /\ state' = ThrottledState(state, next)
            /\ rafQueue' = req.queue
            /\ animationFrameRef' = {req.id}
            /\ bind' = [bind EXCEPT !.framed = TRUE]
            /\ UNCHANGED <<animMounted, profile, wealthPerMsRef, animate,
                           spiralVars, layoutVars, fetchVars, serverVars, sceneVars, clientVars>>

\* the cleanup of the frame effect at unmount
UnmountAnimation ==
    /\ animMounted
    /\ animMounted' = FALSE
    /\ rafQueue' = CancelFrame(rafQueue, animationFrameRef)
    /\ UNCHANGED <<profile, state, startTimeRef, animationFrameRef, wealthPerMsRef,
                   animate, now, frame, bind, spiralVars, layoutVars, fetchVars, serverVars, sceneVars, clientVars>>

NextAnim == MountAnimation \/ ChangeProfile \/ AnimationFrame \/ UnmountAnimation

SpecAnim == Init /\ [][NextAnim]_vars

-----------------------------------------------------------------------------
(* useBillionaireData: mount, refetch, the answers of /api/wealth, unmount *)

\* the start of fetchData: setIsLoading(true), setError(null), fetch('/api/wealth')
StartFetch ==
    /\ isLoading' = TRUE
    /\ error' = "null"
    /\ fetches' = Append(fetches, [pc |-> "fetch"])

\* the first render, whose effect calls fetchData
MountData ==
    /\ dataLife = "initial"
    /\ dataLife' = "mounted"
    /\ StartFetch
    /\ UNCHANGED <<profiles, lateCalls, origins, spiralVars, layoutVars, animVars, serverVars, sceneVars, clientVars>>

\* refetch() of the mounted component
Refetch ==
    /\ dataLife = "mounted"
    /\ Len(fetches) < MaxFetches
    /\ StartFetch
    /\ UNCHANGED <<dataLife, profiles, lateCalls, origins,
                   spiralVars, layoutVars, animVars, serverVars, sceneVars, clientVars>>

\* the rest of fetchData once muskNetWorth and muskDataSource are known: the
\* profiles are built (no await of it waits for the network while the API calls
\* are disabled), then setProfiles(results) and, in finally, setIsLoading(false).
\* React drops the update of a component that is unmounted.
FinishFetch(i, musk, answers) ==
    /\ fetches' = [fetches EXCEPT ![i] = [pc |-> "done"]]
    /\ IF dataLife = "mounted"
       THEN /\ profiles' = BuildResults(musk, answers)
            /\ origins' = [k \in 1..Len(billionaireIds) |->
                               OriginOf(billionaireIds[k], musk, answers[k])]
            /\ isLoading' = FALSE
            /\ UNCHANGED lateCalls
       ELSE /\ lateCalls' = lateCalls \cup {"setProfiles", "setIsLoading"}
            /\ UNCHANGED <<profiles, isLoading, origins>>
    /\ UNCHANGED <<dataLife, error, spiralVars, layoutVars, animVars, serverVars, sceneVars, clientVars>>

\* fetch('/api/wealth') rejects, or answers with a status that is not ok
WealthRequestFails ==
    \E i \in 1..Len(fetches), answers \in [1..Len(billionaireIds) -> RtbAnswers] :
        /\ fetches[i].pc = "fetch"
        /\ FinishFetch(i, NoMusk, answers)

\* fetch('/api/wealth') answers with an ok status: response.json() is awaited
WealthResponseOk ==
    \E i \in 1..Len(fetches) :
        /\ fetches[i].pc = "fetch"
        /\ fetches' = [fetches EXCEPT ![i] = [pc |-> "json"]]
        /\ UNCHANGED <<dataLife, profiles, isLoading, error, lateCalls, origins,
                       spiralVars, layoutVars, animVars, serverVars, sceneVars, clientVars>>

\* response.json() rejects: the inner catch leaves muskNetWorth null
WealthBodyMalformed ==
    \E i \in 1..Len(fetches), answers \in [1..Len(billionaireIds) -> RtbAnswers] :
        /\ fetches[i].pc = "json"
        /\ FinishFetch(i, NoMusk, answers)

\* response.json() resolves with a body
WealthBodyParsed ==
    \E i \in 1..Len(fetches), body \in WealthBodies,
       answers \in [1..Len(billionaireIds) -> RtbAnswers] :
        /\ fetches[i].pc = "json"
        /\ FinishFetch(i, ReadWealthBody(body), answers)

\* the component is unmounted; the hook has no cleanup
UnmountData ==
    /\ dataLife = "mounted"
    /\ dataLife' = "unmounted"
    /\ UNCHANGED <<profiles, isLoading, error, fetches, lateCalls, origins,
                   spiralVars, layoutVars, animVars, serverVars, sceneVars, clientVars>>

NextFetch ==
    \/ MountData
    \/ Refetch
    \/ WealthRequestFails
    \/ WealthResponseOk
    \/ WealthBodyMalformed
    \/ WealthBodyParsed
    \/ UnmountData

SpecFetch == Init /\ [][NextFetch]_vars

-----------------------------------------------------------------------------
(* The server: deployment, clock, the two endpoints and the cache functions *)

\* the server is started in an environment, before it answers any request
Deploy ==
    \E e \in Envs :
        /\ served = NoRequest
        /\ e # env
        /\ env' = e
        /\ redisClient' = NoRedisClient
        /\ UNCHANGED <<clock, store, lastWrite, served,
                       spiralVars, layoutVars, animVars, fetchVars, sceneVars, clientVars>>

\* time passes; Redis drops the keys that have expired
AdvanceClock ==
    \E t \in ClockInstants :
        /\ t > clock
        /\ clock' = t
        /\ store' = RedisExpire(store, t)
        /\ UNCHANGED <<env, redisClient, lastWrite, served,
                       spiralVars, layoutVars, animVars, fetchVars, sceneVars, clientVars>>

\* the effects of a handler of the refresh endpoint, and the record of them
ServeRefresh(endpoint, request, answer, h) ==
    /\ served.count < MaxRefreshes
    /\ store' = h.store
    /\ redisClient' = h.client
    /\ lastWrite' = h.write
    /\ served' = [count |-> served.count + 1, endpoint |-> endpoint,
                  request |-> request, answer |-> answer, response |-> h.response,
                  apiCalled |-> h.apiCalled,
                  cacheWritten |-> (h.store # store),
                  written |-> (h.write # lastWrite /\ h.write.result)]
    /\ UNCHANGED <<env, clock, spiralVars, layoutVars, animVars, fetchVars, sceneVars, clientVars>>

\* GET or POST /api/cron/update-wealth, the revision with the scheduler header
RefreshRequest ==
    \E request \in Requests, answer \in ForbesAnswers, net \in RedisOutcomes :
        ServeRefresh("refresh", request, answer,
                     IF request.method = "GET" THEN RefreshGET(request, answer, net)
                     ELSE RefreshPOST(request, answer, net))

\* GET or POST /api/cron/update-wealth, the revision at route.ts
CronRequest ==
    \E request \in Requests, answer \in ForbesAnswers, net \in RedisOutcomes :
        ServeRefresh("cron", request, answer,
                     IF request.method = "GET" THEN CronGET(request, answer, net)
                     ELSE CronPOST(request, answer, net))

\* GET /api/wealth
WealthRequest ==
    \E net \in RedisOutcomes :
        LET h == WealthGET(net)
        IN  /\ redisClient' = h.client
            /\ served' = [count |-> served.count, endpoint |-> "wealth",
                          response |-> h.response,
                          readOk |-> (getRedisClient(net).found /\ net.first),
                          entry |-> store[WEALTH_DATA_KEY]]
            /\ UNCHANGED <<env, clock, store, lastWrite,
                           spiralVars, layoutVars, animVars, fetchVars, sceneVars, clientVars>>

\* a call of getWealthCache() and of getElonWealthCache()
ReadCache ==
    \E net \in RedisOutcomes :
        LET w == getWealthCache(net)
            e == getElonWealthCache(net)
        IN  /\ redisClient' = w.client
            /\ served' = [count |-> served.count, endpoint |-> "cache", time |-> clock,
                          wealth |-> w.result, elon |-> e.result,
                          readOk |-> (getRedisClient(net).found /\ net.first)]
            /\ UNCHANGED <<env, clock, store, lastWrite,
                           spiralVars, layoutVars, animVars, fetchVars, sceneVars, clientVars>>

NextServer ==
    \/ Deploy
    \/ AdvanceClock
    \/ RefreshRequest
    \/ CronRequest
    \/ WealthRequest
    \/ ReadCache

SpecServer == Init /\ [][NextServer]_vars

-----------------------------------------------------------------------------
(* WealthScene3D: the scene is rendered with the growth count of the hook *)

\* the first render, for a billionaire or for the average household
MountScene ==
    \E isBillionaire \in BOOLEAN, roundoff \in {0, 1} :
        /\ ~scene.mounted
        /\ scene' = Scene(isBillionaire, 0, roundoff)
        /\ UNCHANGED <<spiralVars, layoutVars, animVars, fetchVars, serverVars, clientVars>>

\* a render with a larger growthBricks or growthPennies
GrowScene ==
    \E d \in {1, SceneJump} :
        /\ scene.mounted
        /\ scene.count + d <= MaxSceneCount
        /\ scene' = Scene(scene.isBillionaire, scene.count + d, scene.roundoff)
        /\ UNCHANGED <<spiralVars, layoutVars, animVars, fetchVars, serverVars, clientVars>>

UnmountScene ==
    /\ scene.mounted
    /\ scene' = NoScene
    /\ UNCHANGED <<spiralVars, layoutVars, animVars, fetchVars, serverVars, clientVars>>

NextScene == MountScene \/ GrowScene \/ UnmountScene

SpecScene == Init /\ [][NextScene]_vars

-----------------------------------------------------------------------------
(* The cache module: concurrent calls in one process *)

\* the process starts with its environment
StartProcess ==
    /\ calls = <<>>
    /\ Deploy
    /\ env'.CRON_SECRET = env.CRON_SECRET
    /\ env'.RAPIDAPI_KEY = env.RAPIDAPI_KEY
    /\ env'.NODE_ENV = env.NODE_ENV

\* a call of setWealthCache, getWealthCache or getElonWealthCache up to its
\* first await: getRedisClient() returns null, returns the open client, or
\* assigns a new client to redisClient and awaits its connect()
CallCache ==
    \E op \in CacheOps, early \in BOOLEAN :
        /\ Len(calls) < MaxCalls
        /\ IF ~env.REDIS_URL
           THEN /\ calls' = Append(calls, CallDone(op, "null"))
                /\ UNCHANGED <<clients, redisClientRef>>
           ELSE IF HasOpenClient
           THEN /\ calls' = Append(calls, [op |-> op, pc |-> "first", mine |-> {},
                                           client |-> redisClientRef, result |-> "pending"])
                /\ UNCHANGED <<clients, redisClientRef>>
           ELSE /\ clients' = Append(clients, createClient(early))
                /\ redisClientRef' = {Len(clients) + 1}
                /\ calls' = Append(calls, [op |-> op, pc |-> "connect",
                                           mine |-> {Len(clients) + 1},
                                           client |-> {}, result |-> "pending"])
        /\ UNCHANGED <<spiralVars, layoutVars, animVars, fetchVars, serverVars, sceneVars>>

\* await redisClient.connect() resolves: getRedisClient returns redisClient
ConnectResolves ==
    \E c \in 1..Len(calls) :
        /\ calls[c].pc = "connect"
        /\ clients' = [i \in 1..Len(clients) |->
                          IF i \in calls[c].mine
                          THEN [status |-> "ready", isOpen |-> TRUE]
                          ELSE clients[i]]
        /\ calls' = [calls EXCEPT ![c].pc = "first", ![c].client = redisClientRef]
        /\ UNCHANGED <<redisClientRef, spiralVars, layoutVars, animVars, fetchVars,
                       serverVars, sceneVars>>

\* await redisClient.connect() rejects: getRedisClient returns null
ConnectRejects ==
    \E c \in 1..Len(calls) :
        /\ calls[c].pc = "connect"
        /\ clients' = [i \in 1..Len(clients) |->
                          IF i \in calls[c].mine
                          THEN [status |-> "closed", isOpen |-> FALSE]
                          ELSE clients[i]]
        /\ calls' = [calls EXCEPT ![c] = CallDone(calls[c].op, "null")]
        /\ UNCHANGED <<redisClientRef, spiralVars, layoutVars, animVars, fetchVars,
                       serverVars, sceneVars>>

\* an awaited command of a call settles: setEx of the first key, setEx of the
\* second key, or get.  A command sent to a client that is connecting waits
\* for the connection; on a closed client it rejects.
CommandSettles ==
    \E c \in 1..Len(calls), ok \in BOOLEAN :
        LET call    == calls[c]
            success == ok /\ \A i \in call.client : clients[i].status = "ready"
            key     == IF call.op = "getWealthCache" THEN WEALTH_DATA_KEY ELSE ELON_KEY
        IN  /\ call.pc \in {"first", "second"}
            /\ \A i \in call.client : clients[i].status # "connecting"
            /\ IF ~success
               THEN /\ calls' = [calls EXCEPT ![c] = CallDone(call.op, "null")]
                    /\ UNCHANGED store
               ELSE IF call.op # "setWealthCache"
               THEN /\ calls' = [calls EXCEPT ![c] =
                                    CallDone(call.op,
                                             IF RedisGet(store, key, clock) = {}
                                             THEN "null" ELSE "data")]
                    /\ UNCHANGED store
               ELSE IF call.pc = "first"
               THEN /\ store' = RedisSetEx(store, WEALTH_DATA_KEY, TTL_SECONDS,
                                           JsonStringify(CallData), clock)
                    /\ calls' = [calls EXCEPT ![c].pc = "second"]
               ELSE /\ store' = RedisSetEx(store, ELON_KEY, TTL_SECONDS,
                                           JsonStringifyBillionaire(CallData.elonMusk), clock)
                    /\ calls' = [calls EXCEPT ![c] = CallDone(call.op, "true")]
            /\ UNCHANGED <<clients, redisClientRef, env, clock, redisClient, lastWrite,
                           served, spiralVars, layoutVars, animVars, fetchVars, sceneVars>>

NextClient ==
    \/ StartProcess
    \/ CallCache
    \/ ConnectResolves
    \/ ConnectRejects
    \/ CommandSettles

SpecClient == Init /\ [][NextClient]_vars

-----------------------------------------------------------------------------
(* Claims about the spiral (SpecSpiral) *)

\* a / b for rationals, b > 0
RatDiv(a, b) == Rat(a.num * b.den, a.den * b.num)

\* a position in grid-cell units: the coordinates divided by PILE_SPACING
CellOf(pos) == [x |-> RatDiv(pos.x, PILE_SPACING), z |-> RatDiv(pos.z, PILE_SPACING)]

IntCell(x, z) == [x |-> RatInt(x), z |-> RatInt(z)]

\* the cell of pile index n among the piles placed so far
PlacedCell(n) == CellOf(spiralPiles[n + 1])

SpiralDocOrder ==
    << <<0, 0>>, <<1, 0>>, <<1, 1>>, <<0, 1>>, <<-1, 1>>,
       <<-1, 0>>, <<-1, -1>>, <<0, -1>>, <<1, -1>>, <<2, -1>> >>

\* C2: in grid-cell units the pile indices 0..9 lie on the cells (0,0), (1,0),
\* (1,1), (0,1), (-1,1), (-1,0), (-1,-1), (0,-1), (1,-1), (2,-1), in this order.
C2_SpiralOrder ==
    \A n \in 0..(Min(Len(spiralPiles), Len(SpiralDocOrder)) - 1) :
        PlacedCell(n) = IntCell(SpiralDocOrder[n + 1][1], SpiralDocOrder[n + 1][2])

C2_Witness == Len(spiralPiles) >= Len(SpiralDocOrder)

\* Chebyshev distance of an integer cell from the origin
Cheb(cell) ==
    IF Abs(cell.x.num) >= Abs(cell.z.num) THEN Abs(cell.x.num) ELSE Abs(cell.z.num)

\* first and last pile index of ring k >= 1
RingFirst(k) == (2 * k - 1) * (2 * k - 1)
RingLast(k) == (2 * k + 1) * (2 * k + 1) - 1

\* all cells at Chebyshev distance k
RingCells(k) ==
    { IntCell(x, z) : x \in (-k)..k, z \in (-k)..k } \
        { IntCell(x, z) : x \in (1 - k)..(k - 1), z \in (1 - k)..(k - 1) }

\* the rings that are complete among the piles placed so far
CompleteRings == { k \in 1..Len(spiralPiles) : RingLast(k) < Len(spiralPiles) }

\* C3: the pile indices (2k-1)^2 .. (2k+1)^2 - 1 occupy exactly the cells at
\* Chebyshev distance k from the origin, and a pile at distance k has an index
\* of at least (2k-1)^2: ring k is not entered before ring k-1 is complete.
C3_SquareRings ==
    /\ \A k \in CompleteRings :
          { PlacedCell(n) : n \in RingFirst(k)..RingLast(k) } = RingCells(k)
    /\ \A n \in 1..(Len(spiralPiles) - 1) :
          LET cell == PlacedCell(n)
          IN  /\ IsInteger(cell.x) /\ IsInteger(cell.z)
              /\ Cheb(cell) >= 1
              /\ RingFirst(Cheb(cell)) <= n
              /\ n <= RingLast(Cheb(cell))

C3_Witness == 2 \in CompleteRings

-----------------------------------------------------------------------------
(* Claims about the layout (SpecLayout) *)

SamePlace(a, b) ==
    /\ a.id = b.id
    /\ a.pileX = b.pileX
    /\ a.pileZ = b.pileZ
    /\ a.brickY = b.brickY

\* C1: when the layout is recomputed for a larger count, every brick of the
\* smaller layout keeps its pile position and its height, and every pile keeps
\* its grid position.
C1_AppendStable ==
    [][ (totalBricks >= 1 /\ totalBricks' > totalBricks) =>
          /\ \A i \in 1..totalBricks :
                SamePlace(layout.brickPositions[i], layout'.brickPositions[i])
          /\ \A p \in 1..Len(layout.piles) :
                /\ layout'.piles[p].gridX = layout.piles[p].gridX
                /\ layout'.piles[p].gridZ = layout.piles[p].gridZ ]_vars

C1_Witness ==
    /\ totalBricks > 4 * MAX_BRICKS_PER_PILE
    /\ Len(layout.brickPositions) = totalBricks
    /\ Len(layout.piles) >= 5

RECURSIVE SeqSum(_)
SeqSum(q) == IF q = <<>> THEN 0 ELSE q[1] + SeqSum(Tail(q))

PileSizes == [p \in 1..Len(layout.piles) |-> layout.piles[p].brickCount]

C6_NewestBrick ==
    LET flagged == { i \in 1..Len(layout.brickPositions) : layout.brickPositions[i].isNew }
    IN  /\ totalBricks = 0 => flagged = {} /\ tower.newBricks = {}
        /\ totalBricks >= 1 =>
              /\ flagged = {totalBricks}
              /\ layout.brickPositions[totalBricks].id = totalBricks - 1
              /\ tower.newBricks = {totalBricks - 1}

\* the newest brick is the first brick of a new pile
C6_Witness ==
    /\ totalBricks = 2 * MAX_BRICKS_PER_PILE + 1
    /\ layout.brickPositions[totalBricks].isNew
    /\ layout.brickPositions[totalBricks].brickY = RatInt(0)
    /\ ~layout.brickPositions[totalBricks - 1].isNew

\* C24: the spiral assignment is injective: the piles of two different
\* indices never lie on the same cell.
C24_SpiralInjective ==
    \A m, n \in 1..Len(spiralPiles) :
        m # n => \/ spiralPiles[m].x # spiralPiles[n].x
                 \/ spiralPiles[m].z # spiralPiles[n].z

\* four complete rings and more: 100 piles on 100 different cells, the last
\* of them on the fifth ring
C24_Witness ==
    /\ Len(spiralPiles) >= 100
    /\ Cardinality({ spiralPiles[n] : n \in 1..Len(spiralPiles) }) = Len(spiralPiles)
    /\ Cheb(PlacedCell(Len(spiralPiles) - 1)) = 5

\* C23: the bricks are numbered 0 .. totalBricks-1 in order, and the brick with
\* id i lies in pile floor(i / 20), at the grid position of that pile index,
\* at the height (i mod 20) * BRICK_HEIGHT.
C23_BricksInOrder ==
    /\ Len(layout.brickPositions) = totalBricks
    /\ \A i \in 0..(totalBricks - 1) :
          LET brick == layout.brickPositions[i + 1]
              pile  == i \div MAX_BRICKS_PER_PILE
          IN  /\ brick.id = i
              /\ brick.pileX = getPileGridPosition(pile).x
              /\ brick.pileZ = getPileGridPosition(pile).z
              /\ brick.pileX = layout.piles[pile + 1].gridX
              /\ brick.pileZ = layout.piles[pile + 1].gridZ
              /\ layout.piles[pile + 1].pileIndex = pile
              /\ brick.brickY = RatScale(i % MAX_BRICKS_PER_PILE, BRICK_HEIGHT)

\* a layout whose last brick, id 104, is the fifth brick of the sixth pile
C23_Witness ==
    /\ totalBricks = 5 * MAX_BRICKS_PER_PILE + 5
    /\ layout.brickPositions[totalBricks].id = totalBricks - 1
    /\ layout.brickPositions[totalBricks].brickY = RatScale(4, BRICK_HEIGHT)
    /\ layout.brickPositions[totalBricks].pileX = getPileGridPosition(5).x
    /\ layout.brickPositions[totalBricks].pileZ = getPileGridPosition(5).z

-----------------------------------------------------------------------------
(* Claims about the growth computation (SpecAnim) *)

\* the growth of the frame in thousandths of a dollar, computed in integers:
\* elapsedMs * dailyIncrease / 86_400_000 = elapsedMs * (dailyIncrease / 86_400) / 1000
FrameGrowthMilli == frame.elapsedMs * (frame.profile.dailyIncrease \div 86400)

\* C7: on every frame the growth is elapsedMs * dailyIncrease / 86_400_000 and
\* the unit count is its quotient by brickValue, floored; the hook publishes
\* that count.  2500 at 1000 per brick gives 2, 999 gives 0.
C7_LinearFloored ==
    /\ (frame.ran /\ frame.divisor > 0) =>
          /\ frame.profile.dailyIncrease % 86400 = 0
          /\ frame.currentWealth.num * 1000 = FrameGrowthMilli * frame.currentWealth.den
          /\ frame.totalBricks = Finite(FrameGrowthMilli \div (1000 * frame.divisor))
          /\ frame.divisor = frame.profile.brickValue
          /\ bind.framed => state.totalBricks = frame.totalBricks
    /\ calculateBricks(RatInt(2500), 1000) = Finite(2)
    /\ calculateBricks(RatInt(999), 1000) = Finite(0)

\* a frame 2500 ms after the start at 1000 dollars per second and per brick, and
\* the growth of the frame is not a whole number of bricks
C7_Witness ==
    /\ frame.ran
    /\ frame.profile.id = "second"
    /\ frame.elapsedMs = 2500
    /\ frame.currentWealth = RatInt(2500)
    /\ state.totalBricks = Finite(2)

\* C8: after the profile passed to the hook has changed, the elapsed time of a
\* frame is measured from the time of the change at the earliest.
C8_EpochResetOnSwitch ==
    (frame.ran /\ bind.framed) => frame.elapsedMs <= frame.timestamp - bind.time

\* C9: animate never divides by a brickValue <= 0.
C9_NoDivisionByNonPositive == frame.ran => frame.divisor > 0

\* C11: at most one animation frame is pending at any time, also when animate
\* is re-created; none is pending while the hook is unmounted, and while it
\* is unmounted animate does not run and the state is not updated.
C11_FramesStopAtUnmount ==
    /\ [](Cardinality(rafQueue) <= 1)
    /\ [](~animMounted => rafQueue = {})
    /\ [][(~animMounted /\ ~animMounted') => (frame' = frame /\ state' = state)]_vars

\* unmounted with animate re-created since the last frame: the frame that ran
\* was requested by an animate of another brickValue
C11_Witness ==
    /\ ~animMounted
    /\ frame.ran
    /\ bind.switched
    /\ animate.brickValue # frame.divisor
    /\ rafQueue = {}

\* a <= b for rationals with positive denominators
RatLeq(a, b) == a.num * b.den <= b.num * a.den

\* the profile satisfies the data model: dailyIncrease >= 0 and brickValue > 0
ValidProfile(p) == p.dailyIncrease >= 0 /\ p.brickValue > 0

\* C21: while the hook is mounted with one and the same valid profile, the
\* elapsedMs, the currentWealth and the totalBricks of the published state
\* never decrease from one step to the next.
C21_MonotoneGrowth ==
    [][(/\ animMounted /\ animMounted'
        /\ ~bind.switched /\ ~bind'.switched
        /\ ValidProfile(profile))
       => /\ state.elapsedMs <= state'.elapsedMs
          /\ RatLeq(state.currentWealth, state'.currentWealth)
          /\ state.totalBricks.kind = "finite"
          /\ state'.totalBricks.kind = "finite"
          /\ state.totalBricks.val <= state'.totalBricks.val]_vars

\* the profile never changed and frames have raised the published state to
\* 2500 ms, 2500 dollars and 2 bricks
C21_Witness ==
    /\ animMounted
    /\ ~bind.switched
    /\ profile.id = "second"
    /\ state.elapsedMs = 2500
    /\ state.currentWealth = RatInt(2500)
    /\ state.totalBricks = Finite(2)
    /\ now > 2500

\* C22: at elapsed time 0, in the initial state and after the first frame, the
\* growth amount and the unit count are 0 and the wealth shown is the
\* profile's starting wealth.
C22_StartShown ==
    (animMounted /\ ValidProfile(profile) /\ ~bind.switched /\ state.elapsedMs = 0)
        => /\ state.currentWealth = RatInt(0)
           /\ state.totalBricks = Finite(0)
           /\ TowerWealthShown = formatCurrency(RatInt(profile.netWorth))

\* the triple animate computed in the last frame
FrameTriple(f) ==
    [currentWealth |-> f.currentWealth, totalBricks |-> f.totalBricks,
     elapsedMs |-> f.elapsedMs]

\* C29: after every animation frame the published totalBricks is the unit
\* count of that frame and the published elapsedMs lies in the 100 ms bucket
\* of the frame's elapsed time; the published state changes only as a whole,
\* to the triple of the frame that runs (or to the initial state at mount).
C29_ThrottledStateConsistent ==
    /\ [](frame.ran =>
            /\ state.totalBricks = frame.totalBricks
            /\ state.elapsedMs \div 100 = frame.elapsedMs \div 100)
    /\ [][state' # state =>
            \/ frame'.ran /\ frame' # frame /\ state' = FrameTriple(frame')
            \/ ~animMounted /\ animMounted' /\ state' = InitialWealthState]_vars

\* the last frame was throttled: the published state is that of an earlier
\* frame of the same bucket and brick count
C29_Witness ==
    /\ frame.ran
    /\ state.elapsedMs # frame.elapsedMs
    /\ state.elapsedMs > 0
    /\ state.currentWealth # frame.currentWealth
    /\ state.totalBricks = frame.totalBricks

-----------------------------------------------------------------------------
(* Claims about the data acquisition (SpecFetch) *)

\* C10: no state setter of useBillionaireData is called after the component
\* was unmounted.
C10_NoSetterAfterTeardown == lateCalls = {}

AllFetchesDone == \A i \in 1..Len(fetches) : fetches[i].pc = "done"

\* C12: whatever /api/wealth and the per-billionaire fetches answer, profiles
\* is the list of the three profiles musk, bezos, zuckerberg in that order,
\* each with brickValue > 0 and dailyIncrease > 0; every invocation of
\* fetchData ends in its finally block, so that loading is over once all
\* invocations of the mounted component are done.
C12_AlwaysThreeValidProfiles ==
    /\ Len(profiles) = Len(billionaireIds)
    /\ \A k \in 1..Len(profiles) :
          /\ profiles[k].id = billionaireIds[k]
          /\ profiles[k].brickValue > 0
          /\ profiles[k].dailyIncrease > 0
    /\ (dataLife = "mounted" /\ AllFetchesDone) => ~isLoading

\* two invocations of fetchData are done and the profiles are the results of
\* one that got a net worth from /api/wealth
C12_Witness ==
    /\ dataLife = "mounted"
    /\ Len(fetches) >= 2
    /\ AllFetchesDone
    /\ profiles # BILLIONAIRES_FALLBACK
    /\ profiles[1].netWorth = 400000

\* C13: when loading has finished and the Musk profile shown is not live data,
\* the indicator "Using estimated data" is shown.
C13_EstimatedDataIndicated ==
    (dataLife = "mounted" /\ ~isLoading /\ ~elonMusk.isLiveData)
        => EstimatedDataIndicator

\* C14: a profile is labelled live only if its net worth came from
\* /api/wealth with source 'cache' or from the RTB API; a profile from the
\* static fallback, or from an answer of /api/wealth whose source is
\* 'fallback', is labelled not live.
C14_ProvenanceLabelled ==
    \A k \in 1..Len(profiles) :
        /\ profiles[k].isLiveData => origins[k] \in {"wealth-cache", "rtb"}
        /\ origins[k] \in {"static", "wealth-fallback"} => ~profiles[k].isLiveData
        /\ origins[k] = "static" => profiles[k] = BILLIONAIRES_FALLBACK[k]

\* the Musk profile carries the net worth of an answer of /api/wealth whose
\* source is 'fallback'
C14_Witness ==
    /\ origins[1] = "wealth-fallback"
    /\ profiles[1].netWorth = 400000
    /\ ~profiles[1].isLiveData

\* C26: isLoading is true whenever an invocation of fetchData of the mounted
\* component is in flight; it is false only when none is pending.
C26_LoadingWhileInFlight ==
    (dataLife = "mounted" /\ ~AllFetchesDone) => isLoading

-----------------------------------------------------------------------------
(* Claims about the server (SpecServer) *)

\* the request served last carries the bearer token of the configured secret,
\* or the scheduler header, or no secret is configured
ClaimedAuthorized ==
    \/ served.request.authorization = BearerOf(env.CRON_SECRET)
    \/ served.request.vercelCron = "1"
    \/ env.CRON_SECRET = ""

\* C15: every request of the refresh endpoint, GET or POST, is authorized
\* exactly when it carries the bearer token of CRON_SECRET or the header
\* x-vercel-cron = 1, or no CRON_SECRET is configured; the others are answered
\* with 401, and for a 401 the Forbes API is not called and the cache is not written.
C15_RefreshAuthorization ==
    served.endpoint \in {"refresh", "cron"} =>
        /\ (served.response.status # 401) <=> ClaimedAuthorized
        /\ served.response.status = 401 =>
              (~served.apiCalled /\ ~served.cacheWritten)

\* C16: when the refresh endpoint answers 200, 'stored' is true only if
\* setWealthCache succeeded, and then the key wealth:billionaires holds the
\* record of the response body.
C16_StoredRecord ==
    (served.endpoint \in {"refresh", "cron"} /\ served.response.status = 200) =>
        /\ served.response.stored = "true" => served.written
        /\ (served.response.stored = "true" /\ clock = lastWrite.time) =>
              { JsonParse(t) : t \in RedisGet(store, WEALTH_DATA_KEY, clock) }
                  = served.response.data

\* the candidate fields of the net worth in the order they are tried, with
\* their units in millions of dollars
Candidates ==
    << [field |-> "current_worth", unit |-> 1000],
       [field |-> "finalWorth", unit |-> 1],
       [field |-> "netWorth", unit |-> 1000] >>

\* the body the Forbes API answered the last request with
AnswerBody == CHOOSE b \in served.answer : TRUE

\* the candidates that are numbers in that body
NumericCandidates ==
    { i \in 1..Len(Candidates) : AnswerBody[Candidates[i].field].type = "number" }

FirstNumeric == CHOOSE i \in NumericCandidates : \A j \in NumericCandidates : i <= j

\* the last request was served by the revision with the alternate fields,
\* was authorized and got a body from the Forbes API
RefreshParsed ==
    /\ served.endpoint = "refresh"
    /\ served.response.status # 401
    /\ env.RAPIDAPI_KEY
    /\ served.answer # {}

\* C17: the net worth is taken from the first of current_worth (billions),
\* finalWorth (millions), netWorth (billions) that is a number; the fields
\* after it are not consulted.
C17_FirstNumericField ==
    (RefreshParsed /\ NumericCandidates # {}) =>
        LET taken == AnswerBody[Candidates[FirstNumeric].field].val
                        * Candidates[FirstNumeric].unit
        IN  IF taken # 0
            THEN /\ served.response.status = 200
                 /\ \A d \in served.response.data :
                        d.elonMusk.netWorth = JsNumber(taken)
            ELSE served.response.status = 500

\* all three fields are numbers and current_worth was taken
C17_Witness ==
    /\ RefreshParsed
    /\ NumericCandidates = {1, 2, 3}
    /\ served.response.status = 200
    /\ \A d \in served.response.data : d.elonMusk.netWorth = JsNumber(851000)

\* C18: when none of the candidate fields is a number the endpoint answers
\* 500 with the names of the fields of the answer, and the cache is not written.
C18_ParseFailure ==
    (RefreshParsed /\ NumericCandidates = {}) =>
        /\ served.response.status = 500
        /\ served.response.success = "false"
        /\ served.response.availableFields =
              { f \in {"current_worth", "finalWorth", "netWorth", "rank"} :
                    AnswerBody[f] # JsUndefined }
              \cup { f \in {"name"} : AnswerBody.name # "" }
        /\ ~served.cacheWritten
        /\ served.response.data = {}

\* the answer has current_worth and netWorth as strings, with Redis configured
C18_Witness ==
    /\ RefreshParsed
    /\ env.REDIS_URL
    /\ NumericCandidates = {}
    /\ served.response.availableFields = {"current_worth", "netWorth"}
    /\ served.response.status = 500

\* C19: GET /api/wealth always answers 200 with success = true; the source is
\* 'cache', with the entry of wealth:billionaires as data, exactly when Redis
\* is configured, the read succeeds and the key has an entry that has not
\* expired; otherwise the source is 'fallback' and the data are the static ones.
C19_CacheOrFallback ==
    served.endpoint = "wealth" =>
        LET hit == env.REDIS_URL /\ served.readOk /\ served.entry # {}
        IN  /\ served.response.status = 200
            /\ served.response.success
            /\ served.response.source = (IF hit THEN "cache" ELSE "fallback")
            /\ hit => served.response.data = { JsonParse(e.text) : e \in served.entry }
            /\ ~hit => \A d \in served.response.data :
                          /\ d.elonMusk.netWorth = JsNumber(WealthFallbackNetWorth)
                          /\ d.elonMusk.source = "Fallback (Forbes API cache unavailable)"
            /\ Cardinality(served.response.data) = 1

\* Redis is configured and read, and the entry written before has expired
C19_Witness ==
    /\ served.endpoint = "wealth"
    /\ served.response.source = "fallback"
    /\ env.REDIS_URL
    /\ served.readOk
    /\ lastWrite.result
    /\ clock >= lastWrite.time + TTL_SECONDS

\* the last call of setWealthCache returned true and a call of the two read
\* functions has reached Redis since
ReadAfterWrite ==
    /\ served.endpoint = "cache"
    /\ served.readOk
    /\ lastWrite.called
    /\ lastWrite.result

\* the read came less than 35 days after the last call of setWealthCache
BeforeExpiry == served.time < lastWrite.time + 35 * 86400

\* both keys hold an entry of the last write, with the expiry 35 days after it
SameExpiry ==
    (lastWrite.called /\ lastWrite.result) =>
        \A key \in {WEALTH_DATA_KEY, ELON_KEY} : \A e \in store[key] :
            e.expiresAt = lastWrite.time + 35 * 86400

JsonNumber(v) == v.type # "nan"

-----------------------------------------------------------------------------
(* Claims about the cache writes (SpecServer) *)

\* C28: a call of setWealthCache that returns true has written both keys with
\* the new data, and a call that returns false has changed neither key.
C28_AllOrNothing ==
    [][(served'.count # served.count /\ lastWrite'.called /\ lastWrite' # lastWrite)
       => IF lastWrite'.result
          THEN /\ RedisGet(store', WEALTH_DATA_KEY, clock)
                     = { JsonStringify(d) : d \in lastWrite'.data }
               /\ RedisGet(store', ELON_KEY, clock)
                     = { JsonStringifyBillionaire(d.elonMusk) : d \in lastWrite'.data }
          ELSE store' = store]_vars

-----------------------------------------------------------------------------
(* Claims about the 3D scene (SpecScene) *)

\* the bricks of the pile rendered, {} when none is
PileBricksShown == UNION { {p.bricks[k] : k \in 1..Len(p.bricks)} : p \in scene.thousandDollarPile }

SamePosition(a, b) == a.x = b.x /\ a.y = b.y /\ a.z = b.z

C30_TallestStackHeight ==
    \A p \in scene.pennyPile :
        p.pileHeight = RatScale(Min(scene.count, maxPenniesPerStack), PENNY_THICKNESS)

-----------------------------------------------------------------------------
(* Claims about the cache client (SpecClient) *)

=============================================================================
